---- MODULE Spec2Model ----
(***************************************************************************)
(* A state-machine model of main.py, the Flappy Bird clone: the module     *)
(* level start-up (lines 183-223) and the main loop (lines 226-313).       *)
(*                                                                         *)
(* One step of the model is either the handling of one event of the        *)
(* "for event in pygame.event.get()" loop (lines 230-267) or the rest of   *)
(* the loop iteration (lines 269-311), called Tick.  A loop iteration is   *)
(* therefore any number of event steps followed by one Tick.               *)
(*                                                                         *)
(* Numbers.  bird_movement is a float that is only ever reset to 0.0 or    *)
(* -6 and increased by 0.2425; it is kept here exactly, as an integer      *)
(* number of 1/Scale pixels.  Its distance to the nearest integer, when    *)
(* it is not one, is at least 0.0025, far above the rounding error of the  *)
(* float sum, so int() of the float and IntTrunc of the exact value agree. *)
(* The volumes are kept in hundredths.  Rectangles are pygame.Rect values: *)
(* integer x, y (top-left), w, h.                                          *)
(***************************************************************************)
EXTENDS Integers, Sequences, FiniteSets, TLC

(***************************************************************************)
(* Program constants                                                       *)
(***************************************************************************)
SCREEN_WIDTH == 288
SCREEN_HEIGHT == 512
\* one pixel per tick of bird_movement, in model units
Scale == 10000
\* GRAVITY = 0.2425, in 1/Scale
GRAVITY == 2425
FLAP_STRENGTH == -6
PIPE_GAP == 100
PIPE_FREQ == 1500
\* clock.tick(60)
FPS == 60
\* random.randint(150, 300), both ends included
HEIGHT_MIN == 150
HEIGHT_MAX == 300
\* the sprites the program downloads: redbird-midflap.png is 34 x 24,
\* pipe-green.png is 52 x 320, base.png is 336 x 112
BIRD_W == 34
BIRD_H == 24
PIPE_W == 52
PIPE_H == 320
BASE_H == 112
\* bird.top <= -50 and top.right > -50
CEILING == -50
PRUNE_MARGIN == -50
\* pipes move by (-3, 0)
PIPE_SPEED == 3
\* the bird's centre x, and SCREEN_WIDTH + 50 for a new pipe
BIRD_X == 50
SPAWN_OFFSET == 50
\* volumes, in hundredths: 0.4, 0.5, steps of 0.05, clamped to 0.0 .. 1.0
MUSIC_DEFAULT == 40
SFX_DEFAULT == 50
volume_change == 5
VOL_MIN == 0
VOL_MAX == 100

(***************************************************************************)
(* Bounds of the model, and the environment they restrict                  *)
(***************************************************************************)
\* a run (from a reset to the next) is followed for at most MaxTicks
\* playing ticks
MaxTicks == 140
\* the player's effective flaps fall on a beat: every FlapEvery-th tick of
\* the run (a flap may be left out)
FlapEvery == 16
\* SPAWNPIPE events that find the field holding MaxPipes pairs are not
\* delivered
MaxPipes == 2
\* at 60 frames per second the 1500 ms timer fires every 90 ticks
SpawnEvery == (PIPE_FREQ * FPS) \div 1000
\* the gap heights the random draw is followed for
Heights == {HEIGHT_MIN, HEIGHT_MAX}

(***************************************************************************)
(* The score file: it exists or not, and its text is a sequence of         *)
(* characters                                                              *)
(***************************************************************************)
NoFile == [exists |-> FALSE, text |-> <<>>]
FileOf(t) == [exists |-> TRUE, text |-> t]
FileContents ==
    {NoFile, FileOf(<<"a", "b", "c">>), FileOf(<<"1">>), FileOf(<<"-", "1">>)}

Digit == <<"0", "1", "2", "3", "4", "5", "6", "7", "8", "9">>
IsDigit(c) == \E i \in 1..10 : Digit[i] = c
DigitVal(c) == (CHOOSE i \in 1..10 : Digit[i] = c) - 1
IsSpace(c) == c \in {" ", "\n", "\t", "\r"}

RECURSIVE LStrip(_)
LStrip(t) == IF t # <<>> /\ IsSpace(Head(t)) THEN LStrip(Tail(t)) ELSE t
RECURSIVE RStrip(_)
RStrip(t) ==
    IF t # <<>> /\ IsSpace(t[Len(t)]) THEN RStrip(SubSeq(t, 1, Len(t) - 1)) ELSE t

RECURSIVE DigitsVal(_, _)
DigitsVal(t, acc) ==
    IF t = <<>> THEN acc ELSE DigitsVal(Tail(t), 10 * acc + DigitVal(Head(t)))

\* int(text) of Python for the texts followed here: surrounding white space
\* is dropped, one sign is allowed, and at least one digit must follow;
\* anything else raises ValueError
IntParses(text) ==
    LET s == RStrip(LStrip(text))
        d == IF s # <<>> /\ Head(s) \in {"-", "+"} THEN Tail(s) ELSE s
    IN  d # <<>> /\ \A i \in 1..Len(d) : IsDigit(d[i])
IntOf(text) ==
    LET s == RStrip(LStrip(text))
        neg == s # <<>> /\ Head(s) = "-"
        d == IF s # <<>> /\ Head(s) \in {"-", "+"} THEN Tail(s) ELSE s
    IN  IF neg THEN -DigitsVal(d, 0) ELSE DigitsVal(d, 0)

RECURSIVE NatStr(_)
NatStr(n) ==
    IF n < 10 THEN <<Digit[n + 1]>> ELSE NatStr(n \div 10) \o <<Digit[(n % 10) + 1]>>
\* str(score)
Str(n) == IF n < 0 THEN <<"-">> \o NatStr(-n) ELSE NatStr(n)

load_highscore(f) ==
    IF f.exists
    THEN IF IntParses(f.text) THEN IntOf(f.text) ELSE 0
    ELSE 0

save_highscore(n) == FileOf(Str(n))

(***************************************************************************)
(* pygame.Rect                                                             *)
(***************************************************************************)
Rect(x, y, w, h) == [x |-> x, y |-> y, w |-> w, h |-> h]
left(r) == r.x
top(r) == r.y
right(r) == r.x + r.w
bottom(r) == r.y + r.h
centerx(r) == r.x + (r.w \div 2)
centery(r) == r.y + (r.h \div 2)
move(r, dx, dy) == [r EXCEPT !.x = r.x + dx, !.y = r.y + dy]
\* surface.get_rect(center=(cx, cy)), get_rect(midtop=...), get_rect(midbottom=...)
get_rect_center(w, h, cx, cy) == Rect(cx - (w \div 2), cy - (h \div 2), w, h)
get_rect_midtop(w, h, cx, t) == Rect(cx - (w \div 2), t, w, h)
get_rect_midbottom(w, h, cx, b) == Rect(cx - (w \div 2), b - h, w, h)
\* mutant: the closed-interval test, under which a shared edge collides
colliderect_closed(a, b) ==
    /\ left(a) <= right(b)
    /\ top(a) <= bottom(b)
    /\ right(a) >= left(b)
    /\ bottom(a) >= top(b)
\* Rect.colliderect: rectangles that only share an edge do not collide
colliderect(a, b) ==
    /\ left(a) < right(b)
    /\ top(a) < bottom(b)
    /\ right(a) > left(b)
    /\ bottom(a) > top(b)

\* mutant: rounding down (math.floor) for int()
IntTrunc_floor(v) == v \div Scale
\* int(x) of a float x: truncation toward zero
IntTrunc(v) == IF v >= 0 THEN v \div Scale ELSE -((-v) \div Scale)

Min(a, b) == IF a < b THEN a ELSE b
Max(a, b) == IF a > b THEN a ELSE b

(***************************************************************************)
(* State                                                                   *)
(***************************************************************************)
VARIABLES
    running,         \* the loop variable
    pc,              \* "events": inside the loop; "quit": after pygame.quit()
    game_active,
    show_volume_ui,
    bird,            \* a Rect
    bird_movement,   \* in 1/Scale pixels per tick
    pipes,           \* sequence of pairs [top, bottom, drawn, id, hits]
    base_x,
    score,
    high_score,
    music_volume,    \* in hundredths
    sfx_volume,      \* in hundredths
    file,            \* highscore.txt
    music_loaded,    \* pygame.mixer.music.load succeeded
    music_on,        \* pygame.mixer.music.play(-1) was reached
    ticks,           \* history: playing ticks of the current run
    spawned,         \* history: pairs created in the current run
    saves            \* history: calls of save_highscore in the last step

vars ==
    <<running, pc, game_active, show_volume_ui, bird, bird_movement, pipes,
      base_x, score, high_score, music_volume, sfx_volume, file, music_loaded,
      music_on, ticks, spawned, saves>>

\* what a run consists of, what the settings hold, what is kept of the past
runVars == <<game_active, bird, bird_movement, pipes, base_x, score>>
volumeVars == <<music_volume, sfx_volume>>
historyVars == <<ticks, spawned, saves>>

\* everything the program itself holds (the rest is history)
programVars ==
    <<running, pc, runVars, show_volume_ui, high_score, volumeVars, file,
      music_loaded, music_on>>

\* mutant: the overlay flag is not consulted
InPlay_no_overlay == game_active
\* line 234 and line 269; line 240
InPlay == game_active /\ ~show_volume_ui
InGameOver == ~game_active /\ ~show_volume_ui

(***************************************************************************)
(* Functions of the program                                                *)
(***************************************************************************)
StartBird == get_rect_center(BIRD_W, BIRD_H, BIRD_X, SCREEN_HEIGHT \div 2)

\* mutant: the score is left out of the reset
reset_game_keeps_score ==
    [bird |-> StartBird,
     bird_movement |-> 0,
     pipes |-> <<>>,
     base_x |-> 0,
     score |-> score,
     game_active |-> TRUE]

reset_game ==
    [bird |-> StartBird,
     bird_movement |-> 0,
     pipes |-> <<>>,
     base_x |-> 0,
     score |-> 0,
     game_active |-> TRUE]

\* mutant: the gap is centred on the drawn value
create_pipe_centred(height, id) ==
    [top |-> get_rect_midbottom(PIPE_W, PIPE_H, SCREEN_WIDTH + SPAWN_OFFSET,
                                height - (PIPE_GAP \div 2)),
     bottom |-> get_rect_midtop(PIPE_W, PIPE_H, SCREEN_WIDTH + SPAWN_OFFSET,
                                height + (PIPE_GAP \div 2)),
     drawn |-> height,
     id |-> id,
     hits |-> 0]
\* height is the value random.randint returned; drawn and id are history
create_pipe(height, id) ==
    [top |-> get_rect_midbottom(PIPE_W, PIPE_H, SCREEN_WIDTH + SPAWN_OFFSET,
                                height - PIPE_GAP),
     bottom |-> get_rect_midtop(PIPE_W, PIPE_H, SCREEN_WIDTH + SPAWN_OFFSET, height),
     drawn |-> height,
     id |-> id,
     hits |-> 0]

\* mutant: the prune test one pixel off
KeepsPipe_inclusive(p) == right(p.top) >= PRUNE_MARGIN
KeepsPipe(p) == right(p.top) > PRUNE_MARGIN
\* mutant: only the top box is moved
MovePipe_top_only(p) == [p EXCEPT !.top = move(p.top, -PIPE_SPEED, 0)]
\* mutant: the pairs move 5 px per tick
MovePipe_fast(p) ==
    [p EXCEPT !.top = move(p.top, -(PIPE_SPEED + 2), 0),
              !.bottom = move(p.bottom, -(PIPE_SPEED + 2), 0)]
MovePipe(p) ==
    [p EXCEPT !.top = move(p.top, -PIPE_SPEED, 0),
              !.bottom = move(p.bottom, -PIPE_SPEED, 0)]

RECURSIVE move_pipes(_)
move_pipes(pipes_list) ==
    IF pipes_list = <<>> THEN <<>>
    ELSE IF KeepsPipe(Head(pipes_list))
         THEN <<MovePipe(Head(pipes_list))>> \o move_pipes(Tail(pipes_list))
         ELSE move_pipes(Tail(pipes_list))

\* mutant: only the bottom box of a pair is tested
HitsPipe_bottom_only(b, pipes_list) ==
    \E i \in 1..Len(pipes_list) : colliderect(b, pipes_list[i].bottom)
HitsPipe(b, pipes_list) ==
    \E i \in 1..Len(pipes_list) :
        colliderect(b, pipes_list[i].top) \/ colliderect(b, pipes_list[i].bottom)
\* mutant: the ground is not tested
HitsBounds_no_ground(b) == top(b) <= CEILING
HitsBounds(b) == top(b) <= CEILING \/ bottom(b) >= SCREEN_HEIGHT - BASE_H

check_collision(b, pipes_list) == HitsPipe(b, pipes_list) \/ HitsBounds(b)

\* mutant: a pair scores once it is at or behind the bird
Scores_behind(p, b) == centerx(p.top) <= centerx(b)
\* "if pipe[0].centerx == bird.centerx: score += 1"
Scores(p, b) == centerx(p.top) = centerx(b)
ScoreGain(pipes_list, b) ==
    Cardinality({i \in 1..Len(pipes_list) : Scores(pipes_list[i], b)})
\* history: the pairs with their count of score increments brought up to date
MarkScored(pipes_list, b) ==
    [i \in 1..Len(pipes_list) |->
        IF Scores(pipes_list[i], b)
        THEN [pipes_list[i] EXCEPT !.hits = @ + 1]
        ELSE pipes_list[i]]

\* mutant: "score = 1" for "score += 1"
NextScore_assign(sc, pipes_list, b) == ScoreGain(pipes_list, b)
\* lines 289-293: score += 1 for every pair the loop finds aligned
NextScore(sc, pipes_list, b) == sc + ScoreGain(pipes_list, b)

\* mutant: the comparison with the best is left out
NewRecord_always(collision_detected, sc, best) == collision_detected
\* lines 283-285: the run ended with a score above the best
NewRecord(collision_detected, sc, best) == collision_detected /\ sc > best

\* mutant: the upper clamp is left out
VolumeUp_unclamped(v) == v + volume_change
\* lines 253 256 259 264
VolumeUp(v) == Min(VOL_MAX, v + volume_change)
VolumeDown(v) == Max(VOL_MIN, v - volume_change)

\* lines 187-195: the try block reaches pygame.mixer.music.play(-1) only if
\* load succeeds and set_volume(music_volume) can be evaluated; at line 189
\* music_volume is declared (line 67) but not yet bound (line 207), which
\* raises NameError, an Exception the handler catches like a failed load
MusicVolumeBoundAtStartup == FALSE
TryStartMusic(load_ok) == load_ok /\ MusicVolumeBoundAtStartup

(***************************************************************************)
(* Start-up                                                                *)
(***************************************************************************)
Startup(f, load_ok) ==
    /\ running = TRUE
    /\ pc = "events"
    /\ game_active = TRUE
    /\ show_volume_ui = FALSE
    /\ bird = StartBird
    /\ bird_movement = 0
    /\ pipes = <<>>
    /\ base_x = 0
    /\ score = 0
    /\ file = f
    /\ high_score = load_highscore(f)
    \* line 195 sets 0.0 when the try block failed; line 207 then sets 0.4
    /\ music_volume = MUSIC_DEFAULT
    /\ sfx_volume = SFX_DEFAULT
    /\ music_loaded = load_ok
    /\ music_on = TryStartMusic(load_ok)
    /\ ticks = 0
    /\ spawned = 0
    /\ saves = 0

Init == \E f \in FileContents : Startup(f, TRUE)

(***************************************************************************)
(* One event of the event loop, lines 230-267                              *)
(***************************************************************************)
\* mutant: the flap is added to the velocity
FlapVelocity_impulse(v) == v + FLAP_STRENGTH * Scale
\* line 236: bird_movement = FLAP_STRENGTH
FlapVelocity(v) == FLAP_STRENGTH * Scale

\* mutant: every key toggles the overlay
ToggleUi_any_key(e, ui) == IF e \in {"K_v", "K_r", "K_SPACE"} THEN ~ui ELSE ui
\* lines 245-247
ToggleUi(e, ui) == IF e = "K_v" THEN ~ui ELSE ui

Keys == {"K_SPACE", "K_r", "K_v", "K_m", "K_n", "K_k", "K_l"}
Events == Keys \cup {"QUIT", "SPAWNPIPE"}

HandleEvent(e, height) ==
    LET flap == InPlay /\ e = "K_SPACE"
        spawn == InPlay /\ e = "SPAWNPIPE"
        reset == InGameOver /\ e = "K_r"
        ui == ToggleUi(e, show_volume_ui)
        adjust == e \in Keys /\ ui
    IN  /\ pc = "events"
        /\ running' = IF e = "QUIT" THEN FALSE ELSE running
        /\ pc' = pc
        /\ bird_movement' =
              IF flap THEN FlapVelocity(bird_movement)
              ELSE IF reset THEN reset_game.bird_movement
              ELSE bird_movement
        /\ pipes' =
              IF spawn THEN Append(pipes, create_pipe(height, spawned + 1))
              ELSE IF reset THEN reset_game.pipes
              ELSE pipes
        /\ bird' = IF reset THEN reset_game.bird ELSE bird
        /\ base_x' = IF reset THEN reset_game.base_x ELSE base_x
        /\ score' = IF reset THEN reset_game.score ELSE score
        /\ game_active' = IF reset THEN reset_game.game_active ELSE game_active
        /\ show_volume_ui' = ui
        /\ music_volume' =
              IF adjust /\ e = "K_m" THEN VolumeUp(music_volume)
              ELSE IF adjust /\ e = "K_n" THEN VolumeDown(music_volume)
              ELSE music_volume
        /\ sfx_volume' =
              IF adjust /\ e = "K_k" THEN VolumeUp(sfx_volume)
              ELSE IF adjust /\ e = "K_l" THEN VolumeDown(sfx_volume)
              ELSE sfx_volume
        /\ ticks' = IF reset THEN 0 ELSE ticks
        /\ spawned' = IF reset THEN 0 ELSE IF spawn THEN spawned + 1 ELSE spawned
        /\ saves' = 0
        /\ UNCHANGED <<high_score, file, music_loaded, music_on>>

Quit == HandleEvent("QUIT", HEIGHT_MIN)
KeySpace == HandleEvent("K_SPACE", HEIGHT_MIN)
KeyR == HandleEvent("K_r", HEIGHT_MIN)
KeyV == HandleEvent("K_v", HEIGHT_MIN)
KeyM == HandleEvent("K_m", HEIGHT_MIN)
KeyN == HandleEvent("K_n", HEIGHT_MIN)
KeyK == HandleEvent("K_k", HEIGHT_MIN)
KeyL == HandleEvent("K_l", HEIGHT_MIN)
SpawnPipe == \E height \in Heights : HandleEvent("SPAWNPIPE", height)

(***************************************************************************)
(* The rest of the loop iteration, lines 269-311                           *)
(***************************************************************************)
\* mutant: the loop condition is always true
LoopContinues_forever(r) == TRUE
\* line 227: while running
LoopContinues(r) == r

Tick ==
    /\ pc = "events"
    /\ pc' = IF LoopContinues(running) THEN "events" ELSE "quit"
    /\ IF InPlay
       THEN LET movement == bird_movement + GRAVITY
                moved == move(bird, 0, IntTrunc(movement))
                field == move_pipes(pipes)
                collision_detected == check_collision(moved, field)
                record == NewRecord(collision_detected, score, high_score)
            IN  /\ bird_movement' = movement
                /\ bird' = moved
                /\ base_x' = IF base_x - 1 <= -SCREEN_WIDTH THEN 0 ELSE base_x - 1
                /\ game_active' = ~collision_detected
                /\ high_score' = IF record THEN score ELSE high_score
                /\ file' = IF record THEN save_highscore(score) ELSE file
                /\ saves' = IF record THEN 1 ELSE 0
                /\ score' = NextScore(score, field, moved)
                /\ pipes' = MarkScored(field, moved)
                /\ ticks' = ticks + 1
       ELSE /\ UNCHANGED <<runVars, high_score, file, ticks>>
            /\ saves' = 0
    /\ UNCHANGED <<running, show_volume_ui, volumeVars, music_loaded, music_on, spawned>>

(***************************************************************************)
(* The environment, and the two sessions that are followed                 *)
(***************************************************************************)
\* flaps that take effect fall on the player's beat
FlapDelivered == InPlay => ticks % FlapEvery = 0
\* spawn events that take effect come with the timer at full frame rate, as
\* many as accumulated, while the field has room
SpawnDelivered == InPlay => (ticks % SpawnEvery = 0 /\ Len(pipes) < MaxPipes)
TickFollowed == InPlay => ticks < MaxTicks

\* a play session: flaps, spawn ticks, restarts and the overlay key
Next ==
    \/ FlapDelivered /\ KeySpace
    \/ SpawnDelivered /\ SpawnPipe
    \/ KeyR
    \/ KeyV
    \/ TickFollowed /\ Tick

Spec == Init /\ [][Next]_vars

\* a settings session: the volume keys, the overlay key, restarts and quit,
\* while the bird falls with no flap and no pipe, and both outcomes of
\* loading the music at start-up
InitSettings == \E load_ok \in BOOLEAN : Startup(NoFile, load_ok)

NextSettings ==
    \/ Quit
    \/ KeyR
    \/ KeyV
    \/ KeyM
    \/ KeyN
    \/ KeyK
    \/ KeyL
    \/ TickFollowed /\ Tick

SpecSettings == InitSettings /\ [][NextSettings]_vars

\* a session that is quit: the bird falls with no flap and no pipe, the
\* overlay is opened and closed, the game is restarted, and quit is asked
\* for at any moment.  An iteration handles the finite list of events that
\* pygame.event.get() returned and then runs the rest of the loop body, so
\* the tick is taken whenever it stays possible.
NextQuit ==
    \/ Quit
    \/ KeyR
    \/ KeyV
    \/ TickFollowed /\ Tick

SpecQuit ==
    InitSettings /\ [][NextQuit]_vars /\ WF_vars(TickFollowed /\ Tick)

\* a session in which the player never flaps and never opens the overlay:
\* pipes are spawned, the bird falls, and a finished run is restarted.  The
\* loop body follows the events of every iteration, so the tick is taken
\* whenever it stays possible.
NextFall ==
    \/ SpawnDelivered /\ SpawnPipe
    \/ KeyR
    \/ TickFollowed /\ Tick

SpecFall ==
    Init /\ [][NextFall]_vars /\ WF_vars(TickFollowed /\ Tick)

(***************************************************************************)
(* Properties                                                              *)
(***************************************************************************)
\* the number of pairs of a field whose centre is at the bird's centre
Aligned(pipes_list, b) ==
    Cardinality({i \in 1..Len(pipes_list) :
                    pipes_list[i].top.x + 26 = b.x + 17})
PlayingTick == ticks' = ticks + 1

\* C1: the best score never decreases; it changes only in a tick that takes
\* the mode from Playing to GameOver, only when the score is above it, and
\* then becomes the score; the score file is written at most once in such a
\* tick, with the new best, and at no other time.
C1_BestMonotonicPersistedOnce ==
    [][/\ high_score' >= high_score
       /\ high_score' # high_score =>
             /\ PlayingTick /\ game_active /\ ~game_active'
             /\ score > high_score
             /\ high_score' = score
       /\ saves' <= 1
       /\ saves' = 1 =>
             /\ PlayingTick /\ game_active /\ ~game_active'
             /\ high_score' > high_score
             /\ file'.exists /\ IntParses(file'.text)
             /\ IntOf(file'.text) = high_score'
       /\ file' # file => saves' = 1]_vars
C1_Witness ==
    /\ saves = 1 /\ ~game_active
    /\ high_score = 1 /\ file = FileOf(<<"1">>)

\* C2: the score never decreases while the mode is Playing, and the only
\* step that lowers it is the restart from GameOver, which sets it to 0.
C2_ScoreOnlyResetByRestart ==
    [][/\ game_active /\ game_active' => score' >= score
       /\ score' < score =>
             /\ KeyR /\ ~game_active /\ game_active' /\ ~show_volume_ui
             /\ score' = 0]_vars
C2_Witness == game_active /\ score = 0 /\ high_score = 2 /\ ticks > 0

\* C3: a pair raises the score at most once while it is in the field, and
\* while a run is in progress the score changes only in a tick, by the
\* number of pairs whose centre is then at the bird's centre.
C3_PairScoredOnce ==
    /\ [](\A i \in 1..Len(pipes) :
             /\ pipes[i].hits <= 1
             /\ pipes[i].hits = 1 <=> pipes[i].top.x + 26 <= 50)
    /\ [][game_active =>
             score' = score + (IF PlayingTick THEN Aligned(pipes', bird') ELSE 0)]_vars
C3_Witness ==
    \E i \in 1..Len(pipes) :
        /\ pipes[i].hits = 1 /\ pipes[i].top.x + 26 < 50 - PIPE_SPEED
        /\ show_volume_ui /\ game_active

\* the boxes of a field that b overlaps: with a shared edge counted, and not
ClosedOverlap(b, r) ==
    /\ b.x <= r.x + r.w /\ r.x <= b.x + b.w
    /\ b.y <= r.y + r.h /\ r.y <= b.y + b.h
OpenOverlap(b, r) ==
    /\ b.x < r.x + r.w /\ r.x < b.x + b.w
    /\ b.y < r.y + r.h /\ r.y < b.y + b.h
OutOfBounds(b) == b.y <= -50 \/ b.y + b.h >= 512 - 112

\* C4 as stated: in every playing tick the collision check is true exactly
\* when the bird's box overlaps or touches a box of some pair, or is at the
\* ceiling margin or the ground line.
C4_TouchingCollides ==
    [][PlayingTick =>
          (~game_active' <=>
              \/ \E i \in 1..Len(pipes') :
                    \/ ClosedOverlap(bird', pipes'[i].top)
                    \/ ClosedOverlap(bird', pipes'[i].bottom)
              \/ OutOfBounds(bird'))]_vars
\* C4 as amended: in every playing tick the collision check is true exactly
\* when the bird's box and a box of some pair share a region of positive
\* area (a shared edge is no collision), or the bird's top is at most -50,
\* or its bottom is at least 512 - 112.
C4_OverlapCollides ==
    [][PlayingTick =>
          (~game_active' <=>
              \/ \E i \in 1..Len(pipes') :
                    \/ OpenOverlap(bird', pipes'[i].top)
                    \/ OpenOverlap(bird', pipes'[i].bottom)
              \/ OutOfBounds(bird'))]_vars
C4_Witness ==
    /\ game_active /\ ticks > 0
    /\ \E i \in 1..Len(pipes) :
          /\ ~OpenOverlap(bird, pipes[i].top) /\ ~OpenOverlap(bird, pipes[i].bottom)
          /\ ClosedOverlap(bird, pipes[i].top) \/ ClosedOverlap(bird, pipes[i].bottom)

\* C5: the session starts Playing with the overlay closed; the mode changes
\* only from Playing to GameOver in a tick with the overlay closed in which
\* the bird collides, and from GameOver to Playing by the restart key with
\* the overlay closed; the overlay key flips the overlay flag and nothing
\* else, and nothing else flips it.
C5_ModeTransitions ==
    /\ (game_active = TRUE /\ show_volume_ui = FALSE)
    /\ [][/\ game_active /\ ~game_active' =>
                /\ PlayingTick /\ ~show_volume_ui
                /\ \/ \E i \in 1..Len(pipes') :
                         \/ OpenOverlap(bird', pipes'[i].top)
                         \/ OpenOverlap(bird', pipes'[i].bottom)
                   \/ OutOfBounds(bird')
          /\ ~game_active /\ game_active' => KeyR /\ ~show_volume_ui
          /\ show_volume_ui' # show_volume_ui =>
                /\ KeyV
                /\ UNCHANGED <<runVars, high_score, file, volumeVars>>
          /\ KeyV => show_volume_ui' # show_volume_ui]_vars
C5_Witness == ~game_active /\ show_volume_ui /\ score = 1 /\ pipes # <<>>

\* C6: the restart key, with the mode GameOver and the overlay closed, gives
\* the mode Playing, the bird at centre height 256 with velocity 0, an empty
\* field, ground offset 0 and score 0, and leaves the best score, the
\* volumes and the overlay flag as they are; in the mode Playing, or with the
\* overlay open, it changes nothing.
C6_RestartResets ==
    [][KeyR =>
          IF ~game_active /\ ~show_volume_ui
          THEN /\ game_active'
               /\ bird'.y + 12 = 256 /\ bird'.x + 17 = 50
               /\ bird_movement' = 0
               /\ pipes' = <<>>
               /\ base_x' = 0
               /\ score' = 0
               /\ UNCHANGED <<high_score, file, volumeVars, show_volume_ui>>
          ELSE UNCHANGED programVars]_vars
C6_Witness ==
    /\ game_active /\ ticks = 0 /\ pipes = <<>> /\ bird_movement = 0
    /\ file = FileOf(<<"0">>)

\* C7: while the overlay is open and stays open, no event and no tick
\* changes the bird, its velocity, the field, the score, the best score,
\* the mode or the ground offset; a pair enters the field only by a spawn
\* event handled in the mode Playing with the overlay closed, so a spawn
\* event handled with the overlay open adds no pair, then or later.
C7_OverlayFreezes ==
    [][/\ show_volume_ui /\ show_volume_ui' =>
             UNCHANGED <<runVars, high_score, file>>
       /\ Len(pipes') > Len(pipes) =>
             /\ SpawnPipe /\ game_active /\ ~show_volume_ui
             /\ Len(pipes') = Len(pipes) + 1
       /\ SpawnPipe /\ show_volume_ui => UNCHANGED programVars]_vars
C7_Witness ==
    /\ show_volume_ui /\ game_active /\ ticks > 0
    /\ Len(pipes) = 1 /\ spawned = 1 /\ bird_movement < 0

\* C8: both volumes stay within 0.0 .. 1.0; a volume key handled with the
\* overlay open moves its own volume by 0.05, clamped to that range, and
\* leaves the other volume; handled with the overlay closed it changes
\* neither; nothing else changes a volume.
Clamp(v) == IF v < 0 THEN 0 ELSE IF v > 100 THEN 100 ELSE v
C8_VolumesClamped ==
    /\ [](music_volume \in 0..100 /\ sfx_volume \in 0..100)
    /\ [][/\ KeyM => /\ sfx_volume' = sfx_volume
                     /\ music_volume' =
                           IF show_volume_ui THEN Clamp(music_volume + 5)
                           ELSE music_volume
          /\ KeyN => /\ sfx_volume' = sfx_volume
                     /\ music_volume' =
                           IF show_volume_ui THEN Clamp(music_volume - 5)
                           ELSE music_volume
          /\ KeyK => /\ music_volume' = music_volume
                     /\ sfx_volume' =
                           IF show_volume_ui THEN Clamp(sfx_volume + 5)
                           ELSE sfx_volume
          /\ KeyL => /\ music_volume' = music_volume
                     /\ sfx_volume' =
                           IF show_volume_ui THEN Clamp(sfx_volume - 5)
                           ELSE sfx_volume
          /\ music_volume' # music_volume => KeyM \/ KeyN
          /\ sfx_volume' # sfx_volume => KeyK \/ KeyL]_vars
C8_Witness == show_volume_ui /\ music_volume = 100 /\ sfx_volume = 0

\* C9: when the background music could not be loaded or started, the main
\* loop is entered all the same and no event changes the music volume.
C9_MusicControlDisabled ==
    /\ (pc = "events" /\ running = TRUE)
    /\ [][~music_on => music_volume' = music_volume]_vars

\* C10: no pair of the field has its right edge left of the prune margin
\* (right edge < -50), and the pairs are in the order in which they were
\* spawned.
C10_PrunedInOrder ==
    /\ \A i \in 1..Len(pipes) : pipes[i].top.x + 52 >= -50
    /\ \A i, j \in 1..Len(pipes) : i < j => pipes[i].id < pipes[j].id
C10_Witness ==
    /\ Len(pipes) = 2
    /\ pipes[1].top.x + 52 = -50
    /\ pipes[2].top.x > 0
    /\ pipes[1].id < pipes[2].id

\* the pair of a field that carries a given id
PairOf(pipes_list, id) ==
    pipes_list[CHOOSE i \in 1..Len(pipes_list) : pipes_list[i].id = id]
HasPair(pipes_list, id) == \E i \in 1..Len(pipes_list) : pipes_list[i].id = id

\* C11: every pair of the field has bottomBox.top - topBox.bottom = 100 and
\* both boxes at the same horizontal position; a playing tick moves both
\* boxes of every pair it keeps by the same amount to the left and leaves
\* their vertical positions as they are, and no other step moves a pair.
C11_GapFixedLockstep ==
    /\ [](\A i \in 1..Len(pipes) :
             /\ pipes[i].bottom.y - (pipes[i].top.y + pipes[i].top.h) = 100
             /\ pipes[i].top.x = pipes[i].bottom.x)
    /\ [][\A i \in 1..Len(pipes') :
             HasPair(pipes, pipes'[i].id) =>
                LET old == PairOf(pipes, pipes'[i].id)
                    new == pipes'[i]
                    dx == IF PlayingTick THEN 3 ELSE 0
                IN  /\ new.top.y = old.top.y /\ new.bottom.y = old.bottom.y
                    /\ new.top.x = old.top.x - dx
                    /\ new.bottom.x = old.bottom.x - dx]_vars
C11_Witness ==
    /\ Len(pipes) = 2 /\ ticks > 100
    /\ pipes[1].top.x < 0 /\ pipes[2].top.x > 200
    /\ pipes[1].bottom.y # pipes[2].bottom.y

\* C12 as stated: a new pair is placed with the gap centred on the value c
\* drawn from 150 .. 300: topBox.bottom = c - 50 and bottomBox.top = c + 50.
C12_GapCentredOnDraw ==
    \A i \in 1..Len(pipes) :
        /\ pipes[i].drawn \in 150..300
        /\ pipes[i].top.y + pipes[i].top.h = pipes[i].drawn - 50
        /\ pipes[i].bottom.y = pipes[i].drawn + 50
\* C12 as amended: a new pair is placed with the gap directly above the
\* value c drawn from 150 .. 300: topBox.bottom = c - 100 and bottomBox.top
\* = c (for c = 300: 200 and 300), its centre at x = 338, and it is appended
\* at the tail of the field.
C12_GapAboveDraw ==
    /\ [](\A i \in 1..Len(pipes) :
             /\ pipes[i].drawn \in 150..300
             /\ pipes[i].top.y + pipes[i].top.h = pipes[i].drawn - 100
             /\ pipes[i].bottom.y = pipes[i].drawn)
    /\ [][Len(pipes') > Len(pipes) =>
             /\ Len(pipes') = Len(pipes) + 1
             /\ SubSeq(pipes', 1, Len(pipes)) = pipes
             /\ pipes'[Len(pipes')].top.x + 26 = 288 + 50
             /\ pipes'[Len(pipes')].bottom.x + 26 = 288 + 50]_vars
C12_Witness ==
    /\ Len(pipes) = 2 /\ ticks = 90
    /\ pipes[1].drawn = 150 /\ pipes[1].top.x < 312
    /\ pipes[2].drawn = 300 /\ pipes[2].top.x = 312
    /\ pipes[2].top.y + pipes[2].top.h = 200 /\ pipes[2].bottom.y = 300

\* the integer part of v / 10000, toward zero
TowardZero(v) ==
    CHOOSE n \in -100..100 :
        IF v >= 0
        THEN n >= 0 /\ n * 10000 <= v /\ v < (n + 1) * 10000
        ELSE n <= 0 /\ n * 10000 >= v /\ v > (n - 1) * 10000

\* C13: a playing tick adds 0.2425 to the velocity and then moves the bird
\* down by the new velocity truncated toward zero (-5.7575 gives -5); from
\* y = 256 and velocity 0 with no flap the bird is still at 256 after one
\* tick and below 256 (y > 256) after 25 ticks.
C13_GravityTruncates ==
    /\ [](/\ (ticks = 1 /\ bird_movement = 2425) => bird.y + 12 = 256
          /\ (ticks = 25 /\ bird_movement = 25 * 2425) => bird.y + 12 > 256
          /\ (ticks = 1 /\ bird_movement = -57575) => bird.y + 12 = 256 - 5)
    /\ [][PlayingTick =>
             /\ bird_movement' = bird_movement + 2425
             /\ bird'.y = bird.y + TowardZero(bird_movement')
             /\ bird'.x = bird.x]_vars
C13_Witness ==
    /\ game_active /\ bird_movement = -57575 /\ ticks = FlapEvery + 1

\* C14: whatever the score file holds at start-up, the best score is 0 as
\* long as the file is missing or not a number, and the score and the best
\* score are never negative.
C14_ScoresNonNegative ==
    /\ score >= 0
    /\ high_score >= 0
    /\ (~file.exists \/ ~IntParses(file.text)) => high_score = 0

\* C15: a flap sets the velocity to exactly -6, whatever it was, if the mode
\* is Playing and the overlay is closed when the event is handled, and
\* otherwise leaves it as it is; it changes nothing else.
C15_FlapSetsVelocity ==
    [][KeySpace =>
          /\ bird_movement' =
                IF game_active /\ ~show_volume_ui THEN -6 * 10000 ELSE bird_movement
          /\ UNCHANGED <<bird, pipes, base_x, score, game_active, show_volume_ui,
                         high_score, file, volumeVars, running>>]_vars
C15_Witness ==
    /\ game_active /\ ~show_volume_ui
    /\ bird_movement = -6 * 10000 /\ ticks = 2 * FlapEvery /\ bird.y > 244

\* C17: whenever the mode is GameOver the best score is at least the score.
C17_FinalScoreWithinBest == ~game_active => high_score >= score

\* C16: once a quit event is handled, in either mode and with the overlay
\* open or closed, the loop ends: running stays false, the iteration is
\* completed, and after it no further step is taken.
C16_QuitTerminates ==
    /\ (running = FALSE) ~> (pc = "quit")
    /\ [][/\ Quit => ~running'
          /\ ~running => ~running'
          /\ pc' = "quit" => ~running /\ Tick
          /\ pc # "quit"]_vars
C16_Witness == pc = "quit" /\ ~game_active /\ show_volume_ui /\ ~running

\* the pairs of the field whose centre is still right of the bird's centre
Ahead(pipes_list) ==
    Cardinality({i \in 1..Len(pipes_list) : pipes_list[i].top.x + 26 > 50})

\* C18: no pass is missed.  The centre of every pair is a multiple of 3 px
\* away from x = 50; a playing tick that takes a pair's centre from right of
\* 50 to 50 or left of it puts it at 50 exactly and raises the score; and
\* the score is the number of pairs spawned in the run that are no longer
\* right of the bird's centre, the pruned ones included.
C18_NoPassMissed ==
    /\ [](\A i \in 1..Len(pipes) : (pipes[i].top.x + 26 + 100 - 50) % 3 = 1)
    /\ [](score = spawned - Ahead(pipes))
    /\ [][PlayingTick =>
             \A i \in 1..Len(pipes) :
                 (pipes[i].top.x + 26 > 50 /\ HasPair(pipes', pipes[i].id)) =>
                     LET after == PairOf(pipes', pipes[i].id)
                     IN  after.top.x + 26 <= 50 =>
                             /\ after.top.x + 26 = 50
                             /\ after.hits = 1
                             /\ score' >= score + 1]_vars
C18_Witness ==
    /\ spawned = 2 /\ score = 1 /\ Len(pipes) = 1
    /\ pipes[1].id = 2 /\ pipes[1].top.x + 26 > 50

\* C19: whenever the mode is Playing the bird overlaps no box of the field,
\* its top is above the ceiling margin and its bottom is above the ground
\* line.
C19_PlayingIsCollisionFree ==
    game_active =>
        /\ \A i \in 1..Len(pipes) :
               ~OpenOverlap(bird, pipes[i].top) /\ ~OpenOverlap(bird, pipes[i].bottom)
        /\ bird.y > -50
        /\ bird.y + bird.h < 512 - 112
C19_Witness ==
    /\ game_active /\ ticks > 0
    /\ \E i \in 1..Len(pipes) :
           /\ pipes[i].top.x < bird.x + bird.w /\ bird.x < pipes[i].top.x + 52
           /\ bird.y = pipes[i].top.y + 320

\* C20: with no flap and the overlay closed, a run in progress ends: every
\* playing tick leaves the bird where it was or lower, the mode becomes
\* GameOver with the bird's bottom at or below the ground line, and from
\* then on the bird's box and velocity change only by a restart.
C20_FallEndsRun ==
    /\ game_active ~> (~game_active /\ bird.y + bird.h >= 512 - 112)
    /\ [][PlayingTick => bird'.y >= bird.y /\ bird_movement' > bird_movement]_vars
    /\ [][~game_active /\ ~game_active' => UNCHANGED <<bird, bird_movement>>]_vars
C20_Witness ==
    /\ ~game_active /\ bird.y + bird.h >= 512 - 112
    /\ bird_movement > 0 /\ pipes # <<>> /\ saves = 0

====
